---- MODULE Spec2Model ----
(***************************************************************************)
(* MontyCodeInterpreter (src/monty_rlm.py): the bridge that drives one     *)
(* sandboxed turn at a time.  The sandbox session (pydantic_monty) is an   *)
(* external collaborator: it prints, suspends on an external call,         *)
(* completes, or raises a runtime error, nondeterministically.             *)
(***************************************************************************)
EXTENDS Integers, Sequences, FiniteSets, TLC

(* ------------------------------- bounds -------------------------------- *)
\* Most suspensions the session emits in one turn.
MaxCalls == 2
\* Most text fragments the session prints in one turn.
MaxOut == 1

\* Most fragments a turn prints where the captured text itself is studied.
MaxText == 2

(* ------------------------------- values -------------------------------- *)
\* Values are written as text: "1", "2" are saved, "8", "9" come from the caller.
EmptyMap == [n \in {} |-> ""]

OneMap(n, v) == [k \in {n} |-> v]

Range(s) == {s[i] : i \in DOMAIN s}

Min(a, b) == IF a < b THEN a ELSE b

\* Names the scripts save, clear and read.
Names == {"x", "y"}

\* Reserved names injected by execute (lines 97-99).
Reserved == {"SAVE", "CLEAR", "SUBMIT"}

\* Tool mappings the host may pass to the constructor: none, or one that also
\* registers functions under the reserved names.
ToolConfigs == {{}, {"f", "SAVE", "CLEAR", "SUBMIT"}}

\* The caller's `variables` argument of a turn (None and {} are both falsy).
VarInputs == {EmptyMap, OneMap("x", "8"), OneMap("x", "9")}

\* Values of output_fields: None, or the declared field names in order.
NoFields == [declared |-> FALSE, names |-> <<>>]

Fields(names) == [declared |-> TRUE, names |-> names]

FieldInputs == {NoFields, Fields(<<>>), Fields(<<"a", "b">>), Fields(<<"a", "a">>)}

\* Text fragments handed to the print callback.
Fragments == {<<"t", "\n">>}

\* Fragments where the captured text itself is studied: print(end="") captures
\* the empty text.
TextFragments == {<<>>, <<"t", "\n">>, <<"u">>}

\* What a raising host tool raises.
ToolCauses == {"boom"}

\* Names the host registers or removes between turns.
HostToolNames == {"f"}

\* Return values of tools: a text and the names it lists.
Value(text, names) == [text |-> text, names |-> names]

NoneValue == Value("None", {})

\* What a host tool returns.
ToolReturn == Value("ok", {})

(* ---------------------- what the session may request ------------------- *)
Call(fn, args, kwargs) ==
    [kind |-> "call", function_name |-> fn, args |-> args, kwargs |-> kwargs]

FutureSnapshot == [kind |-> "future"]

NoProgress == [kind |-> "unset"]

SaveKwargs == {OneMap("x", "1"), OneMap("y", "1"),
               [n \in {"x", "y"} |-> IF n = "x" THEN "2" ELSE "1"]}

ClearArgs == {<<>>, <<"x">>, <<"x", "y">>}

SubmitKwargs == {EmptyMap, OneMap("a", "k")}

Snapshots ==
    {Call("SAVE", <<>>, kw) : kw \in SaveKwargs}
    \cup {Call("SAVE", <<"1">>, EmptyMap)}
    \cup {Call("CLEAR", a, EmptyMap) : a \in ClearArgs}
    \cup {Call("CLEAR", <<>>, OneMap("x", "1"))}
    \cup {Call("SUBMIT", <<>>, OneMap("a", "k"))}
    \cup {Call("SUBMIT", <<"p1", "p2">>, kw) : kw \in SubmitKwargs}
    \cup {Call("SUBMIT", <<"p1", "p2", "p3">>, EmptyMap)}
    \cup {Call("f", <<"1">>, EmptyMap)}
    \cup {FutureSnapshot}

(* ------------------------------- results ------------------------------- *)
NotRun == [kind |-> "not run"]

ReturnNone == [kind |-> "None"]

ReturnText(t) == [kind |-> "text", value |-> t]

FinalOutput(m) == [kind |-> "FinalOutput", value |-> m]

Raise(exc, msg) == [kind |-> "raise", exc |-> exc, msg |-> msg]

(* -------------------------- helpers of the code ------------------------ *)
\* dict.update(other): entries of other overwrite same-named entries of d.
DictUpdate(d, other) ==
    [n \in DOMAIN d \cup DOMAIN other |-> IF n \in DOMAIN other THEN other[n] ELSE d[n]]

\* dict.pop(n, None): removes n when present, no error when absent.
DictPop(d, n) == [m \in DOMAIN d \ {n} |-> d[m]]

\* for n in names: self._state.pop(n, None)
RECURSIVE PopEach(_, _, _)
PopEach(d, names, i) ==
    IF i > Len(names) THEN d ELSE PopEach(DictPop(d, names[i]), names, i + 1)

\* The callables of a turn: the caller's function registered under a name, or
\* one of the closures execute defines.
CallerFn(n) == [owner |-> "caller", name |-> n]

BridgeFn(n) == [owner |-> "bridge", name |-> n]

NoFn == [owner |-> "none", name |-> "none"]

\* self._tools = dict(tools) if tools else {}
ToolsOf(names) == [n \in names |-> CallerFn(n)]

\* Faulty variant: the reserved names are assigned first and the caller's tools on top.
AllTools_CallerWins(tools) ==
    [n \in DOMAIN tools \cup Reserved |-> IF n \in DOMAIN tools THEN tools[n] ELSE BridgeFn(n)]

\* all_tools = dict(self._tools), then SAVE, CLEAR and SUBMIT are assigned.
AllTools(tools) ==
    [n \in DOMAIN tools \cup Reserved |-> IF n \in Reserved THEN BridgeFn(n) ELSE tools[n]]

\* Faulty variant: the store first, then the caller's variables on top.
MergedVars_CallerWins(vars, state) == DictUpdate(DictUpdate(EmptyMap, state), vars)

\* merged_vars: the caller's variables first, then the store on top.
MergedVars(vars, state) == DictUpdate(DictUpdate(EmptyMap, vars), state)

\* Faulty variant: SAVE keeps the value a name already has.
SaveBody_KeepOld(state, kwargs) == DictUpdate(kwargs, state)

\* _save: self._state.update(kwargs)
SaveBody(state, kwargs) == DictUpdate(state, kwargs)

\* Faulty variant: CLEAR empties the store whatever names it is given.
ClearBody_All(state, names) == EmptyMap

\* _clear: no names empties the store, else each name is popped in turn.
ClearBody(state, names) ==
    IF names = <<>> THEN EmptyMap ELSE PopEach(state, names, 1)

\* _save returns f"Saved: {', '.join(kwargs.keys())}"
SaveReturn(kwargs) == Value("Saved: ", DOMAIN kwargs)

\* _clear returns "Cleared all saved state" or f"Cleared: {', '.join(names)}"
ClearReturn(names) ==
    IF names = <<>> THEN Value("Cleared all saved state", {})
    ELSE Value("Cleared: ", Range(names))

\* Faulty variant: all_tools is self._tools itself, so the reserved names are
\* assigned into the host's mapping.
ToolsAfterCopy_Aliased(tools) ==
    [n \in DOMAIN tools \cup Reserved |-> IF n \in Reserved THEN BridgeFn(n) ELSE tools[n]]

\* all_tools = dict(self._tools) is a copy: the assignments of the reserved
\* names go to the copy and self._tools is left as it is.
ToolsAfterCopy(tools) == tools

\* merged_vars is a new dict: merged_vars.update(variables) only reads the
\* caller's mapping.
VariablesAfterMerge(v, state) == v

\* Faulty variant: the session is resumed without the tool's return value.
ReturnValue_None(v) == NoneValue

\* progress.resume(return_value=result): the value handed to the session.
ReturnValue(v) == v

\* Python's call binding: _save(**kwargs) takes no positional argument and
\* _clear(*names) no keyword argument; a call that does not bind raises
\* TypeError before the body runs.
Binds(fn, snap) ==
    CASE fn = "SAVE" -> snap.args = <<>>
      [] fn = "CLEAR" -> DOMAIN snap.kwargs = {}
      [] OTHER -> TRUE

\* Faulty variant: the positional value overwrites the keyword binding.
SetDefault_Overwrite(m, k, v) == DictUpdate(m, OneMap(k, v))

\* dict.setdefault(k, v)
SetDefault(m, k, v) == IF k \in DOMAIN m THEN m ELSE DictUpdate(m, OneMap(k, v))

\* for name, value in zip(field_names, progress.args): setdefault(name, value)
RECURSIVE ZipSetDefault(_, _, _, _)
ZipSetDefault(m, names, args, i) ==
    IF i > Min(Len(names), Len(args)) THEN m
    ELSE ZipSetDefault(SetDefault(m, names[i], args[i]), names, args, i + 1)

\* submit_kwargs as built when the snapshot asks for SUBMIT.
SubmitOutput(kwargs, args, fields) ==
    IF args # <<>> /\ fields.declared /\ fields.names # <<>>
    THEN ZipSetDefault(kwargs, fields.names, args, 1)
    ELSE kwargs

\* "".join(stdout_parts)
RECURSIVE Join(_)
Join(parts) == IF parts = <<>> THEN <<>> ELSE Head(parts) \o Join(Tail(parts))

\* The exceptions execute raises.
UnknownFailure(fn) == Raise("CodeInterpreterError", <<"Unknown function: ", fn>>)

\* Faulty variant: the message does not name the tool.
ToolFailure_NoName(fn, cause) ==
    Raise("CodeInterpreterError", <<"Tool failed: ", cause>>)

ToolFailure(fn, cause) ==
    Raise("CodeInterpreterError", <<"Tool ", fn, " failed: ", cause>>)

AsyncFailure == Raise("CodeInterpreterError", <<"Async futures not supported">>)

SyntaxFailure(cause) == Raise("SyntaxError", <<cause>>)

TypingFailure(cause) == Raise("CodeInterpreterError", <<cause>>)

\* A MontyRuntimeError: raised by monty.start it is re-raised with its own
\* message; raised by progress.resume it is caught by the except clause that
\* wraps the tool call, with progress still the snapshot being served.
RuntimeFailure(prog, cause) ==
    IF prog.kind = "unset"
    THEN Raise("CodeInterpreterError", <<cause>>)
    ELSE ToolFailure(prog.function_name, cause)

\* What execute returns when the session completes.
\* Faulty variant: an empty joined text is returned as None.
CompletedResult_Falsy(parts) ==
    IF Join(parts) # <<>> THEN ReturnText(Join(parts)) ELSE ReturnNone

CompletedResult(parts) == IF parts # <<>> THEN ReturnText(Join(parts)) ELSE ReturnNone

\* The kind of failure a caller can tell from the exception it gets.
ErrorKind(r) ==
    CASE r.exc = "SyntaxError" -> "Parse"
      [] r.exc # "SyntaxError" /\ r.msg[1] = "Unknown function: " -> "UnknownCallable"
      [] r.exc # "SyntaxError" /\ r.msg[1] = "Tool " -> "ToolExecution"
      [] r.exc # "SyntaxError" /\ r.msg[1] = "Async futures not supported" -> "UnsupportedSuspension"
      [] OTHER -> "Runtime"

(* -------------------------------- state -------------------------------- *)
VARIABLES
    _state,         \* the Persistent State Store
    _tools,         \* the host's tool mapping
    output_fields,  \* the declared output-field schema, or None
    phase,          \* "idle", "sandbox" (session running), "bridge" (loop body)
    variables,      \* the caller's variables of the current or last turn
    all_tools,      \* the turn's Tool Registry
    merged_vars,    \* the turn's Variable Binding Set
    stdout_parts,   \* text captured in the turn
    progress,       \* the snapshot the loop holds
    result,         \* what the last execute returned or raised
    h_trace,        \* history: the suspensions dispatched in the turn
    h_resumes,      \* history: calls of progress.resume in the turn
    h_state0,       \* history: the store when the turn started
    h_saved,        \* history: per name, the latest SAVE not cleared since
    _type_check,    \* whether the code is type-checked before it runs
    tool_result,    \* what the last tool call returned
    h_emitted,      \* history: the snapshots the session returned in the turn
    h_resumed,      \* history: the values given to progress.resume in the turn
    h_host,         \* history: the tools the host has registered
    h_vars_in,      \* history: the caller's variables as passed to the turn
    h_op            \* history: the method of the interpreter called last

vars == <<_state, _tools, output_fields, phase, variables, all_tools, merged_vars,
          stdout_parts, progress, result, h_trace, h_resumes, h_state0, h_saved,
          _type_check, tool_result, h_emitted, h_resumed, h_host, h_vars_in, h_op>>

cfg == <<_tools, output_fields, _type_check>>

\* What the session's own steps leave alone besides the locals.
turn_rest == <<tool_result, h_resumed, h_host, h_vars_in, h_op>>

locals == <<variables, all_tools, merged_vars, stdout_parts, progress>>

history == <<h_trace, h_resumes, h_state0, h_saved>>

Entry(snap, fn, outcome) == [snap |-> snap, impl |-> fn, outcome |-> outcome]

\* __init__: the store is empty, no schema is declared.
Constructed(type_checks) ==
    /\ _type_check \in type_checks
    /\ tool_result = NoneValue
    /\ h_emitted = <<>>
    /\ h_resumed = <<>>
    /\ h_vars_in = EmptyMap
    /\ h_op = "__init__"
    /\ _state = EmptyMap
    /\ _tools \in {ToolsOf(c) : c \in ToolConfigs}
    /\ output_fields = NoFields
    /\ phase = "idle"
    /\ variables = EmptyMap
    /\ all_tools = EmptyMap
    /\ merged_vars = EmptyMap
    /\ stdout_parts = <<>>
    /\ progress = NoProgress
    /\ result = NotRun
    /\ h_trace = <<>>
    /\ h_resumes = 0
    /\ h_state0 = EmptyMap
    /\ h_saved = EmptyMap
    /\ h_host = _tools

\* MontyCodeInterpreter(type_check=False), as the tests and MontyRLM (by default) construct it.
Init == Constructed({FALSE})

\* MontyCodeInterpreter(...) with either setting of type_check.
InitHost == Constructed(BOOLEAN)

(* ------------------------------ the host ------------------------------- *)
\* Between turns nothing of the last turn is left: its locals are gone and its
\* result has been consumed by the caller.
Forget ==
    /\ variables' = EmptyMap
    /\ all_tools' = EmptyMap
    /\ merged_vars' = EmptyMap
    /\ stdout_parts' = <<>>
    /\ progress' = NoProgress
    /\ result' = NotRun
    /\ h_trace' = <<>>
    /\ h_resumes' = 0
    /\ h_state0' = EmptyMap
    /\ tool_result' = NoneValue
    /\ h_emitted' = <<>>
    /\ h_resumed' = <<>>
    /\ h_vars_in' = EmptyMap

\* start(): self._state.clear()
start ==
    /\ phase = "idle"
    /\ _state' = EmptyMap
    /\ h_saved' = EmptyMap
    /\ h_op' = "start"
    /\ Forget
    /\ UNCHANGED <<cfg, phase, h_host>>

\* Faulty variant: shutdown() empties the store as start() does.
shutdown_Clears ==
    /\ phase = "idle"
    /\ _state' = EmptyMap
    /\ h_saved' = EmptyMap
    /\ h_op' = "shutdown"
    /\ Forget
    /\ UNCHANGED <<cfg, phase, h_host>>

\* shutdown(): pass
shutdown ==
    /\ phase = "idle"
    /\ h_op' = "shutdown"
    /\ Forget
    /\ UNCHANGED <<_state, cfg, phase, h_saved, h_host>>

\* Faulty variant: the tools property hands out a copy, so the host's
\* assignment does not reach self._tools.
register_tool_OnCopy ==
    /\ phase = "idle"
    /\ \E n \in HostToolNames \ DOMAIN h_host :
          h_host' = DictUpdate(h_host, OneMap(n, CallerFn(n)))
    /\ h_op' = "tools"
    /\ Forget
    /\ UNCHANGED <<_state, cfg, phase, h_saved>>

\* interp.tools[n] = fn: the tools property returns self._tools itself.
register_tool ==
    /\ phase = "idle"
    /\ \E n \in HostToolNames \ DOMAIN _tools :
          /\ _tools' = DictUpdate(_tools, OneMap(n, CallerFn(n)))
          /\ h_host' = DictUpdate(h_host, OneMap(n, CallerFn(n)))
    /\ h_op' = "tools"
    /\ Forget
    /\ UNCHANGED <<_state, output_fields, _type_check, phase, h_saved>>

\* del interp.tools[n]
unregister_tool ==
    /\ phase = "idle"
    /\ \E n \in HostToolNames \cap DOMAIN _tools :
          /\ _tools' = DictPop(_tools, n)
          /\ h_host' = DictPop(h_host, n)
    /\ h_op' = "tools"
    /\ Forget
    /\ UNCHANGED <<_state, output_fields, _type_check, phase, h_saved>>

\* The host declares the output-field schema on the interpreter.
set_output_fields ==
    /\ phase = "idle"
    /\ \E f \in FieldInputs \ {output_fields} : output_fields' = f
    /\ h_op' = "set_output_fields"
    /\ Forget
    /\ UNCHANGED <<_state, _tools, _type_check, phase, h_saved, h_host>>

(* --------------------- execute, up to monty.start ---------------------- *)
\* What execute sets up before the session exists.
Setup(v) ==
    /\ variables' = VariablesAfterMerge(v, _state)
    /\ all_tools' = AllTools(_tools)
    /\ _tools' = ToolsAfterCopy(_tools)
    /\ merged_vars' = MergedVars(v, _state)
    /\ tool_result' = NoneValue
    /\ h_trace' = <<>>
    /\ h_resumes' = 0
    /\ h_state0' = _state
    /\ h_emitted' = <<>>
    /\ h_resumed' = <<>>
    /\ h_vars_in' = v
    /\ h_op' = "execute"
    /\ UNCHANGED <<_state, output_fields, _type_check, h_saved, h_host>>

\* The code parses: the session is created and started.
execute_begin ==
    /\ phase = "idle"
    /\ \E v \in VarInputs : Setup(v)
    /\ stdout_parts' = <<>>
    /\ progress' = NoProgress
    /\ result' = NotRun
    /\ phase' = "sandbox"

\* The code does not parse: Monty(...) raises MontySyntaxError.
execute_syntax_error ==
    /\ phase = "idle"
    /\ \E v \in VarInputs : Setup(v)
    /\ result' = SyntaxFailure("invalid syntax")
    /\ UNCHANGED <<phase, stdout_parts, progress>>

\* Faulty variant: the types are checked only once the session has run.
execute_typing_error_AfterRun ==
    /\ phase = "sandbox"
    /\ _type_check
    /\ result' = TypingFailure("type error")
    /\ phase' = "idle"
    /\ UNCHANGED <<_state, cfg, locals, history, h_emitted, turn_rest>>

\* The code does not type-check: Monty(..., type_check=True) raises
\* MontyTypingError.
execute_typing_error ==
    /\ phase = "idle"
    /\ _type_check
    /\ \E v \in VarInputs : Setup(v)
    /\ result' = TypingFailure("type error")
    /\ UNCHANGED <<phase, stdout_parts, progress>>

(* ------------------- the session, between suspensions ------------------ *)
\* print(...): the print callback appends the text.
CapturePrint(most, texts) ==
    /\ phase = "sandbox"
    /\ Len(stdout_parts) < most
    /\ \E t \in texts : stdout_parts' = Append(stdout_parts, t)
    /\ UNCHANGED <<_state, cfg, phase, variables, all_tools, merged_vars, progress,
                   result, history, h_emitted, turn_rest>>

session_print == CapturePrint(MaxOut, Fragments)

\* The script reads a name that is no input of the session (the inputs are
\* the names of merged_vars): the session fails with a NameError.
session_name_error ==
    /\ phase = "sandbox"
    /\ \E n \in Names : n \notin DOMAIN merged_vars
    /\ result' = RuntimeFailure(progress, "NameError")
    /\ phase' = "idle"
    /\ UNCHANGED <<_state, cfg, locals, history, h_emitted, turn_rest>>

\* Any other unhandled error of the script.
session_runtime_error ==
    /\ phase = "sandbox"
    /\ result' = RuntimeFailure(progress, "ZeroDivisionError")
    /\ phase' = "idle"
    /\ UNCHANGED <<_state, cfg, locals, history, h_emitted, turn_rest>>

\* start or resume returns a snapshot: the loop body runs next.
Suspend(snapshots) ==
    /\ phase = "sandbox"
    /\ Len(h_trace) < MaxCalls
    /\ \E s \in snapshots : progress' = s
    /\ h_emitted' = Append(h_emitted, progress')
    /\ phase' = "bridge"
    /\ UNCHANGED <<_state, cfg, variables, all_tools, merged_vars, stdout_parts,
                   result, history, turn_rest>>

session_suspend == Suspend(Snapshots)

\* start or resume returns MontyComplete: the loop ends, execute returns.
session_complete ==
    /\ phase = "sandbox"
    /\ result' = CompletedResult(stdout_parts)
    /\ phase' = "idle"
    /\ UNCHANGED <<_state, cfg, locals, history, h_emitted, turn_rest>>

(* ---------------------------- the loop body ---------------------------- *)
IsCall(fn) == progress.kind = "call" /\ progress.function_name = fn

Registered == progress.kind = "call" /\ progress.function_name \in DOMAIN all_tools

Func == all_tools[progress.function_name]

\* The turn ends with r; the suspension is recorded with its outcome.
EndTurn(r, fn, outcome) ==
    /\ result' = r
    /\ phase' = "idle"
    /\ h_trace' = Append(h_trace, Entry(progress, fn, outcome))
    /\ UNCHANGED <<cfg, locals, h_resumes, h_state0, h_emitted, turn_rest>>

\* progress.resume(return_value=result): the session runs again, with the
\* value the tool call has just returned.
Resume(fn) ==
    /\ phase' = "sandbox"
    /\ h_trace' = Append(h_trace, Entry(progress, fn, "returned"))
    /\ h_resumes' = h_resumes + 1
    /\ h_resumed' = Append(h_resumed, ReturnValue(tool_result'))
    /\ UNCHANGED <<cfg, locals, result, h_state0, h_emitted, h_host, h_vars_in, h_op>>

\* Faulty variant: SUBMIT is not special-cased: the registry's SUBMIT, which returns
\* None, is invoked and the session is resumed.
dispatch_submit_AsTool ==
    /\ phase = "bridge"
    /\ IsCall("SUBMIT")
    /\ tool_result' = NoneValue
    /\ Resume(BridgeFn("SUBMIT"))
    /\ UNCHANGED <<_state, h_saved>>

\* function_name == "SUBMIT": return FinalOutput(submit_kwargs).
dispatch_submit ==
    /\ phase = "bridge"
    /\ IsCall("SUBMIT")
    /\ EndTurn(FinalOutput(SubmitOutput(progress.kwargs, progress.args, output_fields)),
               NoFn, "submitted")
    /\ UNCHANGED <<_state, h_saved>>

\* Faulty variant: the failing turn puts the store back as it was at its start.
dispatch_unknown_Rollback ==
    /\ phase = "bridge"
    /\ progress.kind = "call"
    /\ ~IsCall("SUBMIT")
    /\ ~Registered
    /\ EndTurn(UnknownFailure(progress.function_name), NoFn, "unknown")
    /\ _state' = h_state0
    /\ UNCHANGED h_saved

\* Faulty variant: an unknown name is answered with None and the session resumed.
dispatch_unknown_Resume ==
    /\ phase = "bridge"
    /\ progress.kind = "call"
    /\ ~IsCall("SUBMIT")
    /\ ~Registered
    /\ tool_result' = NoneValue
    /\ Resume(NoFn)
    /\ UNCHANGED <<_state, h_saved>>

\* all_tools.get(name) is None: raise "Unknown function".
dispatch_unknown ==
    /\ phase = "bridge"
    /\ progress.kind = "call"
    /\ ~IsCall("SUBMIT")
    /\ ~Registered
    /\ EndTurn(UnknownFailure(progress.function_name), NoFn, "unknown")
    /\ UNCHANGED <<_state, h_saved>>

\* func is _save.
\* Faulty variant: SAVE also binds the names in the running turn's variables.
dispatch_save_Live ==
    /\ phase = "bridge"
    /\ Registered
    /\ Func = BridgeFn("SAVE")
    /\ Binds("SAVE", progress)
    /\ _state' = SaveBody(_state, progress.kwargs)
    /\ h_saved' = DictUpdate(h_saved, progress.kwargs)
    /\ merged_vars' = DictUpdate(merged_vars, progress.kwargs)
    /\ tool_result' = SaveReturn(progress.kwargs)
    /\ phase' = "sandbox"
    /\ h_trace' = Append(h_trace, Entry(progress, Func, "returned"))
    /\ h_resumes' = h_resumes + 1
    /\ h_resumed' = Append(h_resumed, ReturnValue(tool_result'))
    /\ UNCHANGED <<cfg, variables, all_tools, stdout_parts, progress, result,
                   h_state0, h_emitted, h_host, h_vars_in, h_op>>

dispatch_save ==
    /\ phase = "bridge"
    /\ Registered
    /\ Func = BridgeFn("SAVE")
    /\ IF Binds("SAVE", progress)
       THEN /\ _state' = SaveBody(_state, progress.kwargs)
            /\ h_saved' = [n \in DOMAIN h_saved \cup DOMAIN progress.kwargs |->
                             IF n \in DOMAIN progress.kwargs
                             THEN progress.kwargs[n] ELSE h_saved[n]]
            /\ tool_result' = SaveReturn(progress.kwargs)
            /\ Resume(Func)
       ELSE /\ EndTurn(ToolFailure(progress.function_name, "TypeError"), Func, "raised")
            /\ UNCHANGED <<_state, h_saved>>

\* func is _clear.
dispatch_clear ==
    /\ phase = "bridge"
    /\ Registered
    /\ Func = BridgeFn("CLEAR")
    /\ IF Binds("CLEAR", progress)
       THEN /\ _state' = ClearBody(_state, progress.args)
            /\ h_saved' = IF progress.args = <<>> THEN EmptyMap
                          ELSE [n \in DOMAIN h_saved \ Range(progress.args) |-> h_saved[n]]
            /\ tool_result' = ClearReturn(progress.args)
            /\ Resume(Func)
       ELSE /\ EndTurn(ToolFailure(progress.function_name, "TypeError"), Func, "raised")
            /\ UNCHANGED <<_state, h_saved>>

\* func is a function of the caller: it returns or it raises.
dispatch_caller ==
    /\ phase = "bridge"
    /\ Registered
    /\ ~IsCall("SUBMIT")
    /\ Func.owner = "caller"
    /\ \/ tool_result' = ToolReturn /\ Resume(Func)
       \/ \E c \in ToolCauses :
            EndTurn(ToolFailure(progress.function_name, c), Func, "raised")
    /\ UNCHANGED <<_state, h_saved>>

\* The snapshot is no MontySnapshot: raise "Async futures not supported".
\* Faulty variant: a future is resumed with None as if a tool had returned.
dispatch_future_Ignore ==
    /\ phase = "bridge"
    /\ progress.kind = "future"
    /\ tool_result' = NoneValue
    /\ Resume(NoFn)
    /\ UNCHANGED <<_state, h_saved>>

\* A suspension that is not a MontySnapshot: the else branch of the loop.
dispatch_future ==
    /\ phase = "bridge"
    /\ progress.kind = "future"
    /\ EndTurn(AsyncFailure, NoFn, "unsupported")
    /\ UNCHANGED <<_state, h_saved>>

Next ==
    \/ start
    \/ set_output_fields
    \/ execute_begin
    \/ execute_syntax_error
    \/ session_print
    \/ session_name_error
    \/ session_runtime_error
    \/ session_suspend
    \/ session_complete
    \/ dispatch_submit
    \/ dispatch_unknown
    \/ dispatch_save
    \/ dispatch_clear
    \/ dispatch_caller
    \/ dispatch_future

Spec == Init /\ [][Next]_vars

\* The interpreter as a host drives it: either setting of type_check, tools
\* registered and removed between turns, shutdown(), no schema declared.
NextHost ==
    \/ start
    \/ shutdown
    \/ register_tool
    \/ unregister_tool
    \/ execute_begin
    \/ execute_syntax_error
    \/ execute_typing_error
    \/ session_print
    \/ session_name_error
    \/ session_runtime_error
    \/ session_suspend
    \/ session_complete
    \/ dispatch_submit
    \/ dispatch_unknown
    \/ dispatch_save
    \/ dispatch_clear
    \/ dispatch_caller
    \/ dispatch_future

SpecHost == InitHost /\ [][NextHost]_vars

\* Turns that print several fragments around calls of f and SUBMIT.
TextSnapshots == {Call("SUBMIT", <<>>, OneMap("a", "k")), Call("f", <<"1">>, EmptyMap)}

session_print_text == CapturePrint(MaxText, TextFragments)

session_suspend_text == Suspend(TextSnapshots)

NextText ==
    \/ execute_begin
    \/ session_print_text
    \/ session_suspend_text
    \/ session_runtime_error
    \/ session_complete
    \/ dispatch_submit
    \/ dispatch_unknown
    \/ dispatch_caller

SpecText == Init /\ [][NextText]_vars

(* =============================== claims =============================== *)
\* A turn has started and no suspension has been dispatched in it yet.
FreshTurn == phase # "idle" /\ h_trace = <<>>

LastEntry == h_trace[Len(h_trace)]

IsCallOf(e, fn) == e.snap.kind = "call" /\ e.snap.function_name = fn

\* C1: at the start of a turn the Variable Binding Set holds every name saved
\* by an earlier SAVE and not cleared since, bound to the value of the most
\* recent SAVE of that name.
C1_SavedNamesBound ==
    FreshTurn =>
        \A n \in DOMAIN h_saved :
            n \in DOMAIN merged_vars /\ merged_vars[n] = h_saved[n]

\* Reached: x was saved as "1" and later as "2" with y; the turn sees x = "2".
C1_Witness ==
    /\ FreshTurn
    /\ DOMAIN h_saved = {"x", "y"}
    /\ merged_vars["x"] = "2"
    /\ merged_vars["y"] = "1"

\* C2: CLEAR(n1, ..., nk) removes exactly the given names from the store and
\* leaves the other entries as they were, absent names are no error, CLEAR()
\* empties the store; in the next turn a cleared name that is no caller
\* variable is unbound and the untouched names are bound to their values.
C2_ClearRemovesExactly ==
    [][ /\ (phase = "bridge" /\ IsCall("CLEAR") /\ DOMAIN progress.kwargs = {}) =>
            /\ phase' = "sandbox"
            /\ result' = result
            /\ DOMAIN _state' = IF progress.args = <<>> THEN {}
                                ELSE DOMAIN _state \ Range(progress.args)
            /\ \A n \in DOMAIN _state' : _state'[n] = _state[n]
        /\ (phase = "idle" /\ phase' = "sandbox") =>
            /\ \A n \in Names :
                 (n \notin DOMAIN h_saved /\ n \notin DOMAIN variables')
                     => n \notin DOMAIN merged_vars'
            /\ \A n \in DOMAIN h_saved : merged_vars'[n] = h_saved[n]
      ]_vars

\* Reached: with x and y stored, CLEAR("x") has returned; y is kept, x is gone.
C2_Witness ==
    /\ Len(h_trace) = 1
    /\ h_trace[1].snap = Call("CLEAR", <<"x">>, EmptyMap)
    /\ h_trace[1].outcome = "returned"
    /\ DOMAIN h_state0 = {"x", "y"}
    /\ DOMAIN _state = {"y"}

\* C3: a caller variable whose name is in the store is bound to the store's
\* value, in every turn, until the name is cleared or the store is reset by
\* start(); from then on the caller's value is bound.
C3_StoreShadowsCaller ==
    FreshTurn =>
        \A n \in DOMAIN variables :
            /\ n \in DOMAIN merged_vars
            /\ merged_vars[n] = IF n \in DOMAIN h_saved THEN h_saved[n] ELSE variables[n]

\* Reached: the caller passes x = "9" while the store holds x = "1".
C3_Witness ==
    /\ FreshTurn
    /\ variables = OneMap("x", "9")
    /\ "x" \in DOMAIN h_saved
    /\ merged_vars["x"] = "1"

\* C4: a suspension that requests SAVE, CLEAR or SUBMIT is served by the bridge
\* and never by a function the caller registered under that name.
C4_ReservedServedByBridge ==
    \A i \in DOMAIN h_trace :
        LET e == h_trace[i] IN
        (e.snap.kind = "call" /\ e.snap.function_name \in Reserved) =>
            /\ e.impl.owner # "caller"
            /\ IsCallOf(e, "SAVE") => e.impl = BridgeFn("SAVE")
            /\ IsCallOf(e, "CLEAR") => e.impl = BridgeFn("CLEAR")
            /\ IsCallOf(e, "SUBMIT") => e.outcome = "submitted" /\ result.kind = "FinalOutput"

\* Reached: the caller registered a function as SAVE, and a SAVE was served.
C4_Witness ==
    /\ "SAVE" \in DOMAIN _tools
    /\ h_trace # <<>>
    /\ IsCallOf(LastEntry, "SAVE")
    /\ LastEntry.outcome = "returned"
    /\ "x" \in DOMAIN _state

\* C5: a SUBMIT suspension ends the turn at once with a Final Output built from
\* its arguments: it is the last suspension of the turn, nothing is invoked for
\* it, the session is not resumed, and the captured text is not returned.
C5_SubmitEndsTurn ==
    \A i \in DOMAIN h_trace :
        LET e == h_trace[i] IN
        IsCallOf(e, "SUBMIT") =>
            /\ i = Len(h_trace)
            /\ phase = "idle"
            /\ e.impl = NoFn
            /\ h_resumes = Len(h_trace) - 1
            /\ result.kind = "FinalOutput"
            /\ \A k \in DOMAIN e.snap.kwargs :
                 k \in DOMAIN result.value /\ result.value[k] = e.snap.kwargs[k]

\* Reached: text was printed, then SUBMIT ended the turn.
C5_Witness ==
    /\ h_trace # <<>>
    /\ IsCallOf(LastEntry, "SUBMIT")
    /\ stdout_parts # <<>>
    /\ result.kind = "FinalOutput"

\* C6: with a declared schema, the positional arguments of SUBMIT go to the
\* declared fields in declaration order, the first one for a field winning; a
\* field bound by keyword keeps its keyword value, and every keyword binding
\* is in the Final Output unchanged.
C6_PositionalToFields ==
    (/\ phase = "idle"
     /\ h_trace # <<>>
     /\ IsCallOf(LastEntry, "SUBMIT")
     /\ output_fields.declared
     /\ output_fields.names # <<>>
     /\ LastEntry.snap.args # <<>>) =>
        LET s == LastEntry.snap
            F == output_fields.names
            k == Min(Len(F), Len(s.args))
            out == result.value
        IN  /\ result.kind = "FinalOutput"
            /\ DOMAIN out = DOMAIN s.kwargs \cup {F[i] : i \in 1..k}
            /\ \A n \in DOMAIN s.kwargs : out[n] = s.kwargs[n]
            /\ \A i \in 1..k :
                 (F[i] \notin DOMAIN s.kwargs /\ \A j \in 1..(i - 1) : F[j] # F[i])
                     => out[F[i]] = s.args[i]

\* Reached: SUBMIT("p1", "p2", a="k") under the schema (a, b).
C6_Witness ==
    /\ phase = "idle"
    /\ h_trace # <<>>
    /\ LastEntry.snap = Call("SUBMIT", <<"p1", "p2">>, OneMap("a", "k"))
    /\ output_fields = Fields(<<"a", "b">>)
    /\ result = FinalOutput([n \in {"a", "b"} |-> IF n = "a" THEN "k" ELSE "p2"])

\* C7: a runtime failure of the session is never reported as a Tool-Execution
\* Error: a turn fails with that kind only when a tool has raised.
C7_RuntimeFailureNotToolError ==
    (phase = "idle" /\ result.kind = "raise" /\ ErrorKind(result) = "ToolExecution") =>
        (h_trace # <<>> /\ LastEntry.outcome = "raised")

\* C8: when a registered tool raises, the turn fails with a Tool-Execution
\* Error naming the tool, the session is not resumed for that suspension and
\* nothing is dispatched after it.
C8_ToolRaiseEndsTurn ==
    \A i \in DOMAIN h_trace :
        LET e == h_trace[i] IN
        e.outcome = "raised" =>
            /\ i = Len(h_trace)
            /\ phase = "idle"
            /\ h_resumes = Len(h_trace) - 1
            /\ result.kind = "raise"
            /\ ErrorKind(result) = "ToolExecution"
            /\ result.msg[2] = e.snap.function_name

\* Reached: one tool call was resumed, then the caller's tool f raised.
C8_Witness ==
    /\ Len(h_trace) = 2
    /\ LastEntry.outcome = "raised"
    /\ LastEntry.impl = CallerFn("f")
    /\ result = ToolFailure("f", "boom")

\* What SAVE and CLEAR are specified to do to a store.
SaveSem(s, kw) ==
    [n \in DOMAIN s \cup DOMAIN kw |-> IF n \in DOMAIN kw THEN kw[n] ELSE s[n]]

ClearSem(s, names) ==
    IF names = <<>> THEN EmptyMap ELSE [n \in DOMAIN s \ Range(names) |-> s[n]]

\* The store after the SAVE and CLEAR calls of tr that returned, in order.
RECURSIVE Replay(_, _, _)
Replay(s, tr, i) ==
    IF i > Len(tr) THEN s
    ELSE LET e == tr[i] IN
         Replay(IF e.outcome = "returned" /\ IsCallOf(e, "SAVE") THEN SaveSem(s, e.snap.kwargs)
                ELSE IF e.outcome = "returned" /\ IsCallOf(e, "CLEAR") THEN ClearSem(s, e.snap.args)
                ELSE s,
                tr, i + 1)

C10_UnknownCallable ==
    \A i \in DOMAIN h_trace :
        LET e == h_trace[i] IN
        (e.snap.kind = "call" /\ e.snap.function_name \notin DOMAIN all_tools) =>
            /\ i = Len(h_trace)
            /\ phase = "idle"
            /\ e.impl = NoFn
            /\ h_resumes = Len(h_trace) - 1
            /\ result.kind = "raise"
            /\ ErrorKind(result) = "UnknownCallable"
            /\ result.msg[2] = e.snap.function_name

\* Reached: f is not registered, and is requested after a resumed call.
C10_Witness ==
    /\ Len(h_trace) = 2
    /\ IsCallOf(LastEntry, "f")
    /\ "f" \notin DOMAIN all_tools
    /\ result = UnknownFailure("f")

\* C11: a turn whose code fails to parse or to type-check fails before any
\* session is started: the session has emitted nothing, no tool (SAVE and
\* CLEAR included) has been called, nothing was resumed, and the store is as
\* it was when the turn began.
C11_FailsBeforeSession ==
    (/\ phase = "idle"
     /\ h_op = "execute"
     /\ result \in {SyntaxFailure("invalid syntax"), TypingFailure("type error")})
    => /\ h_emitted = <<>>
       /\ h_trace = <<>>
       /\ h_resumes = 0
       /\ h_resumed = <<>>
       /\ tool_result = NoneValue
       /\ _state = h_state0

C11_Witness ==
    /\ phase = "idle"
    /\ h_op = "execute"
    /\ result = TypingFailure("type error")
    /\ _state # EmptyMap
    /\ "SAVE" \in DOMAIN all_tools

RECURSIVE Offset(_, _)
\* Where fragment i begins in the concatenation of the fragments.
Offset(parts, i) == IF i = 1 THEN 0 ELSE Offset(parts, i - 1) + Len(parts[i - 1])

IsConcatenation(text, parts) ==
    /\ Len(text) = Offset(parts, Len(parts) + 1)
    /\ \A i \in DOMAIN parts :
         \A k \in 1..Len(parts[i]) : text[Offset(parts, i) + k] = parts[i][k]

\* C12: a turn that ends without failure ends in exactly one of two results:
\* a Final Output exactly when SUBMIT was reached, otherwise the captured
\* text, which is the fragments concatenated in the order they were captured;
\* the result is None, and not the empty text, exactly when no fragment was
\* captured.
C12_TurnResult ==
    (/\ phase = "idle"
     /\ h_op = "execute"
     /\ result.kind \notin {"raise", "not run"})
    => LET submitted == h_trace # <<>> /\ IsCallOf(LastEntry, "SUBMIT") IN
       /\ result.kind \in {"FinalOutput", "text", "None"}
       /\ result.kind = "FinalOutput" <=> submitted
       /\ result.kind = "None" <=> (~submitted /\ stdout_parts = <<>>)
       /\ result.kind = "text" => IsConcatenation(result.value, stdout_parts)

\* Reached: a turn printed only the empty text and completed: its result is the
\* empty text.
C12_Witness ==
    /\ phase = "idle"
    /\ h_op = "execute"
    /\ stdout_parts = << <<>> >>
    /\ result = ReturnText(<<>>)

\* C13: the registry of a turn is the host's tool mapping as it stands when
\* the turn starts, plus the reserved names: a tool the host has added after
\* construction is served in the very next turn, one it has removed is not.
C13_RegistryAtTurnStart ==
    (phase # "idle" \/ h_op = "execute")
    => /\ DOMAIN all_tools = DOMAIN h_host \cup Reserved
       /\ \A n \in DOMAIN h_host \ Reserved : all_tools[n] = h_host[n]
       /\ \A n \in Reserved : all_tools[n] = BridgeFn(n)
       /\ \A i \in DOMAIN h_trace :
            LET e == h_trace[i] IN
            (e.snap.kind = "call" /\ e.snap.function_name \in DOMAIN h_host \ Reserved)
            => e.impl = h_host[e.snap.function_name]

\* Reached: the interpreter was constructed without tools, the host added f,
\* and the next turn's call of f was served by it.
C13_Witness ==
    /\ DOMAIN h_host = {"f"}
    /\ h_trace # <<>>
    /\ IsCallOf(LastEntry, "f")
    /\ LastEntry.impl = CallerFn("f")
    /\ LastEntry.outcome = "returned"

\* C14: a SUBMIT with more positional arguments than there are declared
\* output fields ends the turn with an error; the positional arguments beyond
\* the declared fields are not silently discarded.
C14_ExcessPositionalsRejected ==
    \A i \in DOMAIN h_trace :
        LET e == h_trace[i] IN
        (/\ IsCallOf(e, "SUBMIT")
         /\ output_fields.declared
         /\ Len(e.snap.args) > Len(output_fields.names))
        => result.kind = "raise"

\* C15: with no schema declared (None or the empty list), SUBMIT succeeds and
\* the Final Output carries every keyword binding and every positional
\* argument that was given: no argument is missing from it.
C15_NoSchemaKeepsArguments ==
    \A i \in DOMAIN h_trace :
        LET e == h_trace[i] IN
        (/\ IsCallOf(e, "SUBMIT")
         /\ (~output_fields.declared \/ output_fields.names = <<>>))
        => /\ result.kind = "FinalOutput"
           /\ \A k \in DOMAIN e.snap.kwargs :
                k \in DOMAIN result.value /\ result.value[k] = e.snap.kwargs[k]
           /\ \A j \in DOMAIN e.snap.args :
                \E n \in DOMAIN result.value : result.value[n] = e.snap.args[j]

ReturnOf(e) ==
    CASE IsCallOf(e, "SAVE") -> Value("Saved: ", DOMAIN e.snap.kwargs)
      [] IsCallOf(e, "CLEAR") ->
           IF e.snap.args = <<>> THEN Value("Cleared all saved state", {})
           ELSE Value("Cleared: ", {e.snap.args[j] : j \in DOMAIN e.snap.args})
      [] OTHER -> Value("ok", {})

\* C17: the suspensions of a turn are serviced strictly in the order the
\* session emits them, one at a time: the i-th dispatch serves the i-th
\* suspension emitted; at most one suspension is outstanding, and while it is
\* the session does not run; each suspension is resumed at most once, with the
\* value its own tool call returned; and a suspension is dispatched only after
\* every earlier one was resumed.
C17_ServicedInOrder ==
    /\ Len(h_emitted) \in {Len(h_trace), Len(h_trace) + 1}
    /\ (Len(h_emitted) = Len(h_trace) + 1) <=> (phase = "bridge")
    /\ \A i \in DOMAIN h_trace :
         /\ h_trace[i].snap = h_emitted[i]
         /\ i < Len(h_trace) => h_trace[i].outcome = "returned"
    /\ h_resumes = Len(h_resumed)
    /\ Len(h_resumed) = Cardinality({i \in DOMAIN h_trace : h_trace[i].outcome = "returned"})
    /\ \A i \in DOMAIN h_resumed :
         /\ h_trace[i].outcome = "returned"
         /\ h_resumed[i] = ReturnOf(h_trace[i])
    /\ phase = "sandbox" => Len(h_resumed) = Len(h_emitted)

\* Reached: two suspensions were served and resumed, each with its own value,
\* and the session runs again.
C17_Witness ==
    /\ phase = "sandbox"
    /\ Len(h_trace) = 2
    /\ IsCallOf(h_trace[1], "SAVE")
    /\ IsCallOf(h_trace[2], "f")
    /\ h_resumed = <<SaveReturn(h_trace[1].snap.kwargs), ToolReturn>>

\* C18: a SAVE or CLEAR made during a turn does not change the variables
\* bound for that turn: they are, for the whole turn, the caller's variables
\* overlaid by the store as it stood when the turn started, and the start of
\* a turn sees the store as the turns before have left it.
C18_BindingsFixedAtTurnStart ==
    h_op = "execute"
    => /\ DOMAIN merged_vars = DOMAIN h_vars_in \cup DOMAIN h_state0
       /\ \A n \in DOMAIN merged_vars :
            merged_vars[n] = IF n \in DOMAIN h_state0 THEN h_state0[n] ELSE h_vars_in[n]
       /\ FreshTurn => h_state0 = _state

\* Reached: the turn has saved x, the store holds it, and the session runs on
\* without x among its variables.
C18_Witness ==
    /\ phase = "sandbox"
    /\ h_trace # <<>>
    /\ IsCallOf(LastEntry, "SAVE")
    /\ "x" \in DOMAIN _state
    /\ "x" \notin DOMAIN merged_vars

\* C19: a turn modifies neither the caller's variables mapping nor the host's
\* tool mapping: the caller's mapping is after the merge what was passed in,
\* and the host's mapping holds what the host registered, the reserved entries
\* of the bridge being in the turn's own registry only.
C19_InputsNotModified ==
    /\ _tools = h_host
    /\ \A n \in DOMAIN _tools : _tools[n] = CallerFn(n)
    /\ h_op = "execute" => variables = h_vars_in

\* Reached: a turn with caller's variables shadowed by the store has ended; its
\* registry held SAVE, the host's mapping does not.
C19_Witness ==
    /\ phase = "idle"
    /\ h_op = "execute"
    /\ result.kind \in {"None", "text"}
    /\ h_trace # <<>>
    /\ "x" \in DOMAIN variables
    /\ merged_vars # variables
    /\ "SAVE" \in DOMAIN all_tools
    /\ "SAVE" \notin DOMAIN _tools

\* C20: a suspension that is not a synchronous call (a future) ends the turn
\* with the Unsupported-Suspension Error: no tool is called for it, the session
\* is not resumed, and the turn has no Turn Result.
C20_UnsupportedSuspension ==
    \A i \in DOMAIN h_trace :
        LET e == h_trace[i] IN
        e.snap.kind = "future" =>
            /\ i = Len(h_trace)
            /\ phase = "idle"
            /\ e.impl = NoFn
            /\ e.outcome = "unsupported"
            /\ h_resumes = Len(h_trace) - 1
            /\ Len(h_resumed) = Len(h_trace) - 1
            /\ result = AsyncFailure
            /\ ErrorKind(result) = "UnsupportedSuspension"

\* Reached: the session suspended on a future after a served call and text.
C20_Witness ==
    /\ Len(h_trace) = 2
    /\ LastEntry.snap = FutureSnapshot
    /\ h_trace[1].outcome = "returned"
    /\ stdout_parts # <<>>
    /\ result.kind = "raise"

====
